---- MODULE Spec2Model ----
(***************************************************************************)
(* Model of lorenz_final.py: the Lorenz/Gini routine compute_lorenz, the   *)
(* two loops of the script that call it once per year, and the client-side *)
(* scripts of the generated Lorenz page and trajectory page.               *)
(*                                                                         *)
(* Numbers.  The routine works on float64.  The model carries every float  *)
(* as the exact rational it stands for, [num, den] in lowest terms with    *)
(* den > 0, plus the non-finite results of a division by zero (den = 0:    *)
(* num = 0 is NaN, num = 1 / -1 is +inf / -inf).  IEEE rounding of the     *)
(* individual operations (a relative error of 2^-53 each) is not modelled. *)
(***************************************************************************)
EXTENDS Integers, Sequences, FiniteSets, TLC

VARIABLES
    pc,                 \* position of the running code
    counts_df,          \* argument of compute_lorenz: rows [gu, count]
    result,             \* what compute_lorenz returned
    years,              \* script: years found in the CSV (line 70)
    df,                 \* script: year -> per-district row counts of the CSV
    i,                  \* script: loop index over years
    lorenz_data,        \* script: list of {x, y, gini, year} (line 90)
    top_lorenz_indices, \* script: trace index of each year's curve (line 89)
    fig_data,           \* script: fig.data, the traces of the figure
    trajectory_data,    \* script: gu -> list of (year, x, y) (line 274)
    page_pc,            \* Lorenz page: where its chain of callbacks stands
    handler,            \* Lorenz page: the callback that ran last
    animationComplete,  \* Lorenz page: line 868
    selectedIndices,    \* Lorenz page: line 867
    frame,              \* Lorenz page: year groups of frames shown so far
    trace_style,        \* Lorenz page: line and text style of each year trace
    traj_pc,            \* trajectory page: "loading" until its handlers are set
    traj_handler,       \* trajectory page: the callback that ran last
    guList,             \* trajectory page: line 497
    selectedGu,         \* trajectory page: line 505
    isAnimating,        \* trajectory page: line 506
    currentYearIndex,   \* trajectory page: line 507
    animationInterval,  \* trajectory page: line 508, 0 for null
    timers,             \* trajectory page: the browser's live interval timers
    timer_seq,          \* trajectory page: setInterval calls so far
    slider,             \* trajectory page: layout.sliders[0], [active, steps]
    shown_points        \* trajectory page: points drawn of each district trace

pageVars == <<page_pc, handler, animationComplete, selectedIndices, frame, trace_style>>

trajVars == <<traj_pc, traj_handler, guList, selectedGu, isAnimating, currentYearIndex,
              animationInterval, timers, timer_seq, slider, shown_points>>

vars == <<pc, counts_df, result, years, df, i, lorenz_data,
          top_lorenz_indices, fig_data, trajectory_data, pageVars, trajVars>>

(***************************************************************************)
(* Bounds of the model.                                                    *)
(***************************************************************************)
MaxGu == 4
MaxCount == 3

\* District names; Python compares them lexicographically, which for these
\* one-letter names is their position in this sequence.
GuNames == <<"A", "B", "C", "D", "E", "F">>

NameRanks ==
    [g \in { GuNames[k] : k \in 1..Len(GuNames) } |->
        CHOOSE k \in 1..Len(GuNames) : GuNames[k] = g]

NameRank(g) == NameRanks[g]

(***************************************************************************)
(* float64 values as exact rationals.                                      *)
(***************************************************************************)
RECURSIVE GCD(_, _)
GCD(a, b) == IF b = 0 THEN a ELSE GCD(b, a % b)

Abs(a) == IF a < 0 THEN -a ELSE a

Sign(a) == IF a < 0 THEN -1 ELSE IF a > 0 THEN 1 ELSE 0

NaN == [num |-> 0, den |-> 0]

\* The float n/d for d > 0, in lowest terms.
Frac(n, d) ==
    LET g == GCD(Abs(n), d)
    IN  [num |-> n \div g, den |-> d \div g]

Zero == Frac(0, 1)
One == Frac(1, 1)
Two == Frac(2, 1)

IsFinite(f) == f.den > 0
IsNaN(f) == f.den = 0 /\ f.num = 0

\* numpy true division of two integers: 0/0 is nan, a/0 is +-inf.
FDiv(a, b) ==
    IF b = 0 THEN [num |-> Sign(a), den |-> 0]
    ELSE IF b < 0 THEN Frac(-a, -b) ELSE Frac(a, b)

FAdd(f, g) ==
    IF IsFinite(f) /\ IsFinite(g)
    THEN Frac(f.num * g.den + g.num * f.den, f.den * g.den)
    ELSE IF IsNaN(f) \/ IsNaN(g) \/ (~IsFinite(f) /\ ~IsFinite(g) /\ f.num # g.num)
    THEN NaN
    ELSE IF IsFinite(f) THEN g ELSE f

FNeg(f) == [num |-> -f.num, den |-> f.den]

FSub(f, g) == FAdd(f, FNeg(g))

FMul(f, g) ==
    IF IsFinite(f) /\ IsFinite(g)
    THEN Frac(f.num * g.num, f.den * g.den)
    ELSE IF IsNaN(f) \/ IsNaN(g) \/ f.num = 0 \/ g.num = 0
    THEN NaN
    ELSE [num |-> Sign(f.num) * Sign(g.num), den |-> 0]

FHalf(f) == IF IsFinite(f) THEN Frac(f.num, 2 * f.den) ELSE f

\* f <= g on floats: every comparison with NaN is false.
FLe(f, g) ==
    IF IsNaN(f) \/ IsNaN(g) THEN FALSE
    ELSE IF IsFinite(f) /\ IsFinite(g) THEN f.num * g.den <= g.num * f.den
    ELSE IF IsFinite(f) THEN g.num > 0
    ELSE IF IsFinite(g) THEN f.num < 0
    ELSE f.num <= g.num

(***************************************************************************)
(* compute_lorenz, lines 47-63.                                            *)
(***************************************************************************)
\* The sort key of line 48: count ascending, then name ascending.
RowBefore(a, b) ==
    \/ a.count < b.count
    \/ a.count = b.count /\ NameRank(a.gu) < NameRank(b.gu)

\* Insert row r into the sorted sequence s after every row that is not
\* behind it (a stable insertion, as kind="mergesort" is stable).
RECURSIVE InsertRow(_, _)
InsertRow(s, r) ==
    IF s = <<>> THEN <<r>>
    ELSE IF RowBefore(r, s[Len(s)]) THEN Append(InsertRow(SubSeq(s, 1, Len(s) - 1), r), s[Len(s)])
    ELSE Append(s, r)

\* Faults of the sort of line 48: the sorted frame is dropped, the count
\* order is descending, the count key is missing.
sort_values_unassigned(rows) == rows

RECURSIVE sort_values_descending(_)
sort_values_descending(rows) ==
    IF rows = <<>> THEN <<>>
    ELSE LET rest == sort_values_descending(SubSeq(rows, 1, Len(rows) - 1))
             r == rows[Len(rows)]
             ahead == SelectSeq(rest, LAMBDA a :
                         a.count > r.count \/ (a.count = r.count /\ NameRank(a.gu) < NameRank(r.gu)))
             behind == SelectSeq(rest, LAMBDA a :
                         ~(a.count > r.count \/ (a.count = r.count /\ NameRank(a.gu) < NameRank(r.gu))))
         IN  ahead \o <<r>> \o behind

RECURSIVE sort_values_by_name(_)
sort_values_by_name(rows) ==
    IF rows = <<>> THEN <<>>
    ELSE LET rest == sort_values_by_name(SubSeq(rows, 1, Len(rows) - 1))
             r == rows[Len(rows)]
         IN  SelectSeq(rest, LAMBDA a : NameRank(a.gu) <= NameRank(r.gu)) \o <<r>>
             \o SelectSeq(rest, LAMBDA a : NameRank(a.gu) > NameRank(r.gu))

RECURSIVE sort_values(_)
sort_values(rows) ==
    IF rows = <<>> THEN <<>>
    ELSE InsertRow(sort_values(SubSeq(rows, 1, Len(rows) - 1)), rows[Len(rows)])

\* Fault of line 55: the counts themselves instead of their running sums.
cumsum_not_accumulated(rows) == [k \in 1..Len(rows) |-> rows[k].count]

\* counts_df["count"].cumsum(): running sums, as integers.
RECURSIVE cumsum(_)
cumsum(rows) ==
    IF rows = <<>> THEN <<>>
    ELSE LET head == cumsum(SubSeq(rows, 1, Len(rows) - 1))
         IN  Append(head, (IF head = <<>> THEN 0 ELSE head[Len(head)]) + rows[Len(rows)].count)

\* counts_df["count"].sum()
count_sum(rows) == IF rows = <<>> THEN 0 ELSE cumsum(rows)[Len(rows)]

\* np.trapezoid(y, x): sum of diff(x) * (y[1:] + y[:-1]) / 2.
\* Sequences are 1-based here: point k of the code is element k + 1.
RECURSIVE trapezoid_upto(_, _, _)
trapezoid_upto(y, x, k) ==
    IF k = 0 THEN Zero
    ELSE FAdd(trapezoid_upto(y, x, k - 1),
              FHalf(FMul(FSub(x[k + 1], x[k]), FAdd(y[k + 1], y[k]))))

\* Fault of line 58: the arguments of np.trapezoid exchanged.
trapezoid_swapped(y, x) == trapezoid_upto(x, y, Len(x) - 1)

trapezoid(y, x) == trapezoid_upto(y, x, Len(x) - 1)

\* Fault of line 58: the factor 2 missing.
gini_without_factor(y, x) == FSub(One, trapezoid(y, x))

\* Line 58: gini = 1 - 2 * np.trapezoid(y, x)
gini_of(y, x) == FSub(One, FMul(Two, trapezoid(y, x)))

None == [kind |-> "None"]

\* Fault of line 50: the guard tests the wrong condition.
total_is_negative(total) == total < 0

\* Line 50: the guard of the early return.
total_is_zero(total) == total = 0

\* Fault of lines 56-57: the 0 is appended instead of prepended.
append_zero(a) == a \o <<Zero>>

\* Lines 56-57: np.insert(a, 0, 0)
insert_zero(a) == <<Zero>> \o a

\* Lines 53-63: the curve, the index and the per-district positions.
lorenz_curve(sorted, total) ==
    LET n == Len(sorted)
        cs == cumsum(sorted)
        cum_gu == [k \in 1..n |-> FDiv(k, n)]
        cum_tr == [k \in 1..n |-> FDiv(cs[k], total)]
        x == insert_zero(cum_gu)
        y == insert_zero(cum_tr)
        gini == gini_of(y, x)
        positions == [k \in 1..n |->
                        [gu |-> sorted[k].gu, count |-> sorted[k].count,
                         x |-> cum_gu[k], y |-> cum_tr[k]]]
    IN  [kind |-> "tuple", x |-> x, y |-> y, gini |-> gini, positions |-> positions]

compute_lorenz(rows) ==
    LET sorted == sort_values(rows)
        total == count_sum(sorted)
    IN  IF total_is_zero(total) THEN None ELSE lorenz_curve(sorted, total)

(***************************************************************************)
(* The routine on its own: any table of up to MaxGu districts, one row per *)
(* district in name order (as reindex(all_gu) builds it, line 110), with   *)
(* counts 0..MaxCount.                                                     *)
(***************************************************************************)
Tables ==
    UNION { { [k \in 1..n |-> [gu |-> GuNames[k], count |-> c[k]]] :
              c \in [1..n -> 0..MaxCount] } : n \in 0..MaxGu }

\* The page does not exist yet.
PageIdle ==
    /\ page_pc = "unwritten"
    /\ handler = "none"
    /\ animationComplete = FALSE
    /\ selectedIndices = {}
    /\ frame = 0
    /\ trace_style = <<>>

\* The trajectory page does not exist yet.
TrajIdle ==
    /\ traj_pc = "unwritten"
    /\ traj_handler = "none"
    /\ guList = <<>>
    /\ selectedGu = {}
    /\ isAnimating = FALSE
    /\ currentYearIndex = 0
    /\ animationInterval = 0
    /\ timers = {}
    /\ timer_seq = 0
    /\ slider = [active |-> 0, steps |-> 0]
    /\ shown_points = 0

ScriptIdle ==
    /\ years = <<>>
    /\ df = <<>>
    /\ i = 0
    /\ lorenz_data = <<>>
    /\ top_lorenz_indices = <<>>
    /\ fig_data = <<>>
    /\ trajectory_data = <<>>

scriptVars == <<years, df, i, lorenz_data, top_lorenz_indices, fig_data, trajectory_data>>

InitCompute ==
    /\ pc = "call"
    /\ counts_df \in Tables
    /\ result = [kind |-> "pending"]
    /\ ScriptIdle
    /\ PageIdle
    /\ TrajIdle

Call ==
    /\ pc = "call"
    /\ result' = compute_lorenz(counts_df)
    /\ pc' = "return"
    /\ UNCHANGED <<counts_df, scriptVars, pageVars, trajVars>>

NextCompute == Call

SpecCompute == InitCompute /\ [][NextCompute]_vars

(***************************************************************************)
(* The script, lines 66-296: the years and districts of the CSV, the       *)
(* colour map, the figure, the loop that adds one curve per year and the   *)
(* loop that collects each district's positions.                           *)
(*                                                                         *)
(* The CSV enters as `years` (line 70) and `df`: for each of these years   *)
(* the table of line 106-113, one row per district of all_gu with the      *)
(* number of CSV rows of that year.  A year of `years` can have no row at  *)
(* all: line 70 truncates the year column with astype(int), line 107       *)
(* compares the untruncated column with the integer, so a CSV whose only   *)
(* rows of a year carry a fractional year value (2016.5) gives a table of  *)
(* zeros for it.                                                           *)
(***************************************************************************)
MaxAllGu == 2
MaxRows == 1

\* A sample of range(2015, 2026) with its first and last year, the two that
\* the colour map of lines 79-85 treats specially.
YearRange == <<2015, 2016, 2025>>

\* Line 70: the years of the range found in the CSV, in range order.
YearLists ==
    { SelectSeq(YearRange, LAMBDA y : y \in Y) : Y \in SUBSET { YearRange[k] : k \in 1..Len(YearRange) } }

InRange(s, y) == \E k \in 1..Len(s) : s[k] = y

\* Lines 106-113: the tables over all_gu = the first n names.
TablesOf(n) ==
    { [k \in 1..n |-> [gu |-> GuNames[k], count |-> c[k]]] : c \in [1..n -> 0..MaxRows] }

EmptyDict == [g \in {} |-> <<>>]

Init ==
    /\ pc = "start"
    /\ years \in YearLists
    /\ \E n \in 1..MaxAllGu : df \in [{ years[k] : k \in 1..Len(years) } -> TablesOf(n)]
    /\ counts_df = <<>>
    /\ result = [kind |-> "pending"]
    /\ i = 0
    /\ lorenz_data = <<>>
    /\ top_lorenz_indices = <<>>
    /\ fig_data = <<>>
    /\ trajectory_data = EmptyDict
    /\ PageIdle
    /\ TrajIdle

\* Lines 70-103: no year raises ValueError (line 72); 2025 without 2015
\* raises KeyError at color_map[2015] (line 82); otherwise the figure
\* starts with the equality line.
Setup ==
    /\ pc = "start"
    /\ IF years = <<>>
       THEN pc' = "ValueError" /\ UNCHANGED <<i, fig_data>>
       ELSE IF InRange(years, 2025) /\ ~InRange(years, 2015)
       THEN pc' = "KeyError" /\ UNCHANGED <<i, fig_data>>
       ELSE /\ pc' = "lorenz_loop"
            /\ i' = 1
            /\ fig_data' = <<[name |-> "Equality"]>>
    /\ UNCHANGED <<counts_df, result, years, df, lorenz_data, top_lorenz_indices,
                   trajectory_data>>
    /\ UNCHANGED <<pageVars, trajVars>>

\* Fault of lines 116 and 287: the result is never tested for None.
result_is_none_unchecked(r) == FALSE

\* Lines 116 and 287: if result is None
result_is_none(r) == r = None

\* Lines 118 and 289: x, y, gini, positions = result
CanUnpack(r) == r.kind = "tuple"

\* Lines 105-149, one iteration.
LorenzIter ==
    /\ pc = "lorenz_loop"
    /\ i <= Len(years)
    /\ LET year == years[i]
           table == df[year]
           r == compute_lorenz(table)
       IN  /\ counts_df' = table
           /\ result' = r
           /\ IF result_is_none(r)
              THEN /\ i' = i + 1
                   /\ UNCHANGED <<pc, lorenz_data, top_lorenz_indices, fig_data>>
              ELSE IF ~CanUnpack(r)
              THEN /\ pc' = "TypeError"
                   /\ UNCHANGED <<i, lorenz_data, top_lorenz_indices, fig_data>>
              ELSE /\ lorenz_data' = Append(lorenz_data,
                          [x |-> r.x, y |-> r.y, gini |-> r.gini, year |-> year])
                   /\ top_lorenz_indices' = Append(top_lorenz_indices, Len(fig_data))
                   /\ fig_data' = Append(fig_data, [name |-> year])
                   /\ i' = i + 1
                   /\ UNCHANGED pc
    /\ UNCHANGED <<years, df, trajectory_data>>
    /\ UNCHANGED <<pageVars, trajVars>>

\* Lines 151-267: the loop is over; the frames and the layout are built
\* from lorenz_data and the page is written.
LorenzDone ==
    /\ pc = "lorenz_loop"
    /\ i > Len(years)
    /\ pc' = "traj_loop"
    /\ i' = 1
    /\ UNCHANGED <<counts_df, result, years, df, lorenz_data, top_lorenz_indices,
                   fig_data, trajectory_data>>
    /\ UNCHANGED <<pageVars, trajVars>>

\* Lines 292-296: one point per row of positions, appended to the
\* district's list (created on first use).
AddPositions(traj, year, positions) ==
    [g \in DOMAIN traj \cup { positions[k].gu : k \in 1..Len(positions) } |->
        LET old == IF g \in DOMAIN traj THEN traj[g] ELSE <<>>
            at == { k \in 1..Len(positions) : positions[k].gu = g }
        IN  IF at = {} THEN old
            ELSE LET k == CHOOSE k \in at : TRUE
                 IN  Append(old, <<year, positions[k].x, positions[k].y>>)]

\* Lines 276-296, one iteration.
TrajIter ==
    /\ pc = "traj_loop"
    /\ i <= Len(years)
    /\ LET year == years[i]
           table == df[year]
           r == compute_lorenz(table)
       IN  /\ counts_df' = table
           /\ result' = r
           /\ IF result_is_none(r)
              THEN /\ i' = i + 1
                   /\ UNCHANGED <<pc, trajectory_data>>
              ELSE IF ~CanUnpack(r)
              THEN /\ pc' = "TypeError"
                   /\ UNCHANGED <<i, trajectory_data>>
              ELSE /\ trajectory_data' = AddPositions(trajectory_data, year, r.positions)
                   /\ i' = i + 1
                   /\ UNCHANGED pc
    /\ UNCHANGED <<years, df, lorenz_data, top_lorenz_indices, fig_data>>
    /\ UNCHANGED <<pageVars, trajVars>>

TrajDone ==
    /\ pc = "traj_loop"
    /\ i > Len(years)
    /\ pc' = "done"
    /\ UNCHANGED <<counts_df, result, years, df, i, lorenz_data, top_lorenz_indices,
                   fig_data, trajectory_data>>
    /\ UNCHANGED <<pageVars, trajVars>>

Next == Setup \/ LorenzIter \/ LorenzDone \/ TrajIter \/ TrajDone

Spec == Init /\ [][Next]_vars

(***************************************************************************)
(* The Lorenz page, lines 856-1003: the script that the generator appends  *)
(* to lorenz_seoul_interactive.html.  Its constants years, yearColors and  *)
(* topLorenzIdx are the script's years, color_map and top_lorenz_indices   *)
(* (lines 844-846); the traces are fig.data.  The page is written with its *)
(* plot div and the Plotly.newPlot call ahead of this script, so           *)
(* getPlotDiv() finds the div and its data when the load callback runs.    *)
(* Indices are JavaScript's: year i of `years` is years[i + 1] here, and   *)
(* trace_style[p] is the style of the trace topLorenzIdx[p - 1].           *)
(***************************************************************************)
Gray == [of |-> "gray"]

\* yearColors[idx], the colour of year idx of `years` (line 845).
YearColor(idx) == [of |-> "year", year |-> years[idx + 1]]

\* Lines 863-865 and 133: the three line widths.
grayWidth == "1.0"
activeWidth == "3.2"
initialWidth == "2.6"

\* Line 867: new Set(years.map((_, i) => i))
AllIndices == 0..(Len(years) - 1)

\* What the generator can leave behind: the years and, of them, the ones
\* with a curve, each with its trace in fig.data (lines 105-149).
InitLorenzPage ==
    /\ pc = "done"
    /\ years \in YearLists
    /\ years # <<>>
    /\ InRange(years, 2025) => InRange(years, 2015)
    /\ \E curves \in SUBSET { years[k] : k \in 1..Len(years) } :
          LET with == SelectSeq(years, LAMBDA y : y \in curves)
          IN  /\ fig_data = <<[name |-> "Equality"]>> \o [k \in 1..Len(with) |-> [name |-> with[k]]]
              /\ top_lorenz_indices = [k \in 1..Len(with) |-> k]
              \* Lines 137-146: each trace starts in its own year's colour.
              /\ trace_style = [k \in 1..Len(with) |->
                                  [color |-> [of |-> "year", year |-> with[k]],
                                   width |-> initialWidth]]
    /\ df = <<>>
    /\ counts_df = <<>>
    /\ result = [kind |-> "pending"]
    /\ i = 0
    /\ lorenz_data = <<>>
    /\ trajectory_data = EmptyDict
    /\ page_pc = "loading"
    /\ handler = "none"
    /\ animationComplete = FALSE
    /\ selectedIndices = AllIndices
    /\ frame = 0
    /\ TrajIdle

generatorVars == <<pc, counts_df, result, years, df, i, lorenz_data,
                   top_lorenz_indices, fig_data, trajectory_data>>

\* Lines 953-1000 with 904-921: one second after the load event the two
\* legend handlers are registered and playAnimation starts the animation.
Load ==
    /\ page_pc = "loading"
    /\ page_pc' = "animating"
    /\ handler' = "load"
    /\ UNCHANGED <<animationComplete, selectedIndices, frame, trace_style, generatorVars, trajVars>>

\* Lines 163-212: the frames of year group k grey the traces before k, draw
\* trace k in its colour at the active width and say nothing of the others.
FrameStyle(style, k) ==
    [p \in 1..Len(style) |->
        IF p < k THEN [color |-> Gray, width |-> grayWidth]
        ELSE IF p = k THEN [color |-> YearColor(p - 1), width |-> activeWidth]
        ELSE style[p]]

\* Lines 216-231: final_restore puts every trace in its colour at the
\* initial width.
RestoreStyle(style) ==
    [p \in 1..Len(style) |-> [color |-> YearColor(p - 1), width |-> initialWidth]]

\* Plotly.animate of line 917 plays the frames of the next year group.
AnimationFrame ==
    /\ page_pc = "animating"
    /\ frame < Len(top_lorenz_indices)
    /\ frame' = frame + 1
    /\ trace_style' = FrameStyle(trace_style, frame + 1)
    /\ handler' = "frame"
    /\ UNCHANGED <<page_pc, animationComplete, selectedIndices, generatorVars, trajVars>>

\* Lines 921-938: the animation's promise resolves; a timer of 3 s is set.
AnimationResolved ==
    /\ page_pc = "animating"
    /\ frame = Len(top_lorenz_indices)
    /\ page_pc' = "waiting"
    /\ handler' = "animate.then"
    /\ UNCHANGED <<animationComplete, selectedIndices, frame, trace_style, generatorVars, trajVars>>

\* Lines 939-942: the animation's promise rejects.
AnimationRejected ==
    /\ page_pc = "animating"
    /\ page_pc' = "idle"
    /\ animationComplete' = TRUE
    /\ handler' = "animate.catch"
    /\ UNCHANGED <<selectedIndices, frame, trace_style, generatorVars, trajVars>>

\* Lines 924-929: the timer fires and final_restore is animated.
RestoreTimer ==
    /\ page_pc = "waiting"
    /\ page_pc' = "restoring"
    /\ handler' = "timeout"
    /\ UNCHANGED <<animationComplete, selectedIndices, frame, trace_style, generatorVars, trajVars>>

\* Lines 930-933: final_restore is shown and its promise resolves.
RestoreResolved ==
    /\ page_pc = "restoring"
    /\ page_pc' = "idle"
    /\ trace_style' = RestoreStyle(trace_style)
    /\ animationComplete' = TRUE
    /\ handler' = "restore.then"
    /\ UNCHANGED <<selectedIndices, frame, generatorVars, trajVars>>

\* Fault of lines 934-937: the catch only logs the error.
RestoreRejected_logs_only ==
    /\ page_pc = "restoring"
    /\ page_pc' = "idle"
    /\ handler' = "restore.catch"
    /\ UNCHANGED <<animationComplete, selectedIndices, frame, trace_style, generatorVars, trajVars>>

\* Lines 934-937: the promise of final_restore rejects.
RestoreRejected ==
    /\ page_pc = "restoring"
    /\ page_pc' = "idle"
    /\ animationComplete' = TRUE
    /\ handler' = "restore.catch"
    /\ UNCHANGED <<selectedIndices, frame, trace_style, generatorVars, trajVars>>

\* Lines 874-901: updateColors, the style it gives to a trace list.
updateColors(complete, selected, style) ==
    IF ~complete THEN style
    ELSE [p \in 1..Len(style) |->
            IF (p - 1) \in selected
            THEN [color |-> YearColor(p - 1), width |-> activeWidth]
            ELSE [color |-> Gray, width |-> grayWidth]]

\* topLorenzIdx.indexOf(curveNumber), -1 when absent.
IndexOf(curveNumber) ==
    IF \E p \in 1..Len(top_lorenz_indices) : top_lorenz_indices[p] = curveNumber
    THEN (CHOOSE p \in 1..Len(top_lorenz_indices) : top_lorenz_indices[p] = curveNumber) - 1
    ELSE -1

\* Faults of lines 968 and 986: the handlers do not look at the flag.
legend_guard_missing(complete) == FALSE

\* Lines 968 and 986: if (!animationComplete) return false
legend_ignored(complete) == ~complete

Registered == page_pc \in {"animating", "waiting", "restoring", "idle"}

\* Lines 967-983: a click on the legend entry of trace curveNumber.
LegendClick(curveNumber) ==
    /\ Registered
    /\ handler' = "legendclick"
    /\ IF legend_ignored(animationComplete)
       THEN UNCHANGED <<selectedIndices, trace_style>>
       ELSE LET yearIndex == IndexOf(curveNumber)
            IN  IF yearIndex # -1
                THEN /\ selectedIndices' =
                           IF yearIndex \in selectedIndices
                           THEN selectedIndices \ {yearIndex}
                           ELSE selectedIndices \cup {yearIndex}
                     /\ trace_style' = updateColors(animationComplete, selectedIndices', trace_style)
                ELSE UNCHANGED <<selectedIndices, trace_style>>
    /\ UNCHANGED <<page_pc, animationComplete, frame, generatorVars, trajVars>>

\* Lines 985-995: a double click on the legend.
LegendDoubleClick ==
    /\ Registered
    /\ handler' = "legenddoubleclick"
    /\ IF legend_ignored(animationComplete)
       THEN UNCHANGED <<selectedIndices, trace_style>>
       ELSE /\ selectedIndices' =
                  IF Cardinality(selectedIndices) = Len(years) THEN {} ELSE AllIndices
            /\ trace_style' = updateColors(animationComplete, selectedIndices', trace_style)
    /\ UNCHANGED <<page_pc, animationComplete, frame, generatorVars, trajVars>>

\* The legend lists the year traces: the equality line has showlegend=False.
LegendEntries == { top_lorenz_indices[p] : p \in 1..Len(top_lorenz_indices) }

NextLorenzPage ==
    \/ Load
    \/ AnimationFrame
    \/ AnimationResolved
    \/ AnimationRejected
    \/ RestoreTimer
    \/ RestoreResolved
    \/ RestoreRejected
    \/ \E curveNumber \in LegendEntries : LegendClick(curveNumber)
    \/ LegendDoubleClick

SpecLorenzPage == InitLorenzPage /\ [][NextLorenzPage]_vars

\* The browser runs what is pending: the frames of a running animation,
\* the settling of each Plotly.animate promise (one way or the other) and
\* the 3 s timer.  Legend clicks are the user's and need not happen.
AnimationSettles == AnimationResolved \/ AnimationRejected

RestoreSettles == RestoreResolved \/ RestoreRejected

FairLorenzPage ==
    /\ WF_vars(Load)
    /\ WF_vars(AnimationFrame)
    /\ WF_vars(AnimationSettles)
    /\ WF_vars(RestoreTimer)
    /\ WF_vars(RestoreSettles)

SpecLorenzPageFair == InitLorenzPage /\ [][NextLorenzPage]_vars /\ FairLorenzPage

(***************************************************************************)
(* The trajectory page, lines 495-826: the script that the generator       *)
(* appends to lorenz_trajectory_interactive.html.  Its constants guList,   *)
(* yearsList and trajectoryData are the script's sorted(all_gu), years and *)
(* trajectory_data (lines 416-422).  The script reads trajectoryData only  *)
(* through the years and the number of its points, so the page is started  *)
(* on the CSV in which every district has one row in each year that has a  *)
(* curve: district k of n then sits at (k/n, k/n) in each of these years.  *)
(* At least one year has a curve.  An interval timer is a positive number  *)
(* (the value of setInterval); 0 stands for null.                          *)
(***************************************************************************)
MaxTimers == 3

\* yearsList.length
NumYears == Len(years)

InitTrajectoryPage ==
    /\ pc = "done"
    /\ years \in YearLists
    /\ years # <<>>
    /\ InRange(years, 2025) => InRange(years, 2015)
    /\ \E n \in 1..MaxAllGu :
          /\ guList = [k \in 1..n |-> GuNames[k]]
          /\ \E curves \in (SUBSET { years[k] : k \in 1..Len(years) }) \ {{}} :
                LET with == SelectSeq(years, LAMBDA y : y \in curves)
                IN  trajectory_data =
                        [g \in { GuNames[k] : k \in 1..n } |->
                            [t \in 1..Len(with) |->
                                <<with[t], FDiv(NameRank(g), n), FDiv(NameRank(g), n)>>]]
    /\ df = <<>>
    /\ counts_df = <<>>
    /\ result = [kind |-> "pending"]
    /\ i = 0
    /\ lorenz_data = <<>>
    /\ top_lorenz_indices = <<>>
    /\ fig_data = <<[name |-> "Equality"]>>
    /\ PageIdle
    /\ traj_pc = "loading"
    /\ traj_handler = "none"
    /\ selectedGu = {}
    /\ isAnimating = FALSE
    /\ currentYearIndex = 0
    /\ animationInterval = 0
    /\ timers = {}
    /\ timer_seq = 0
    \* Lines 334-347: the slider starts at 0 with no step.
    /\ slider = [active |-> 0, steps |-> 0]
    /\ shown_points = 0

\* Lines 772-823: one second after the load event the district list is
\* drawn and the button, play, pause and slider handlers are registered.
TrajLoad ==
    /\ traj_pc = "loading"
    /\ traj_pc' = "ready"
    /\ traj_handler' = "load"
    /\ UNCHANGED <<guList, selectedGu, isAnimating, currentYearIndex, animationInterval,
                   timers, timer_seq, slider, shown_points, generatorVars, pageVars>>

\* Lines 514-570 with 709-723: rebuildPlot draws the first point of each
\* selected district, updateSlider gives the slider one step per year and
\* puts it at currentYearIndex, and currentYearIndex is reset.  The
\* handlers that call it set currentYearIndex to 0 first.
Rebuild(selected) ==
    /\ selectedGu' = selected
    /\ shown_points' = IF selected = {} THEN 0 ELSE 1
    /\ slider' = [active |-> 0, steps |-> NumYears]
    /\ currentYearIndex' = 0

\* Lines 734-743: a click on a district of the list.
ToggleGu(guName) ==
    /\ traj_pc = "ready"
    /\ traj_handler' = "toggle"
    /\ Rebuild(IF guName \in selectedGu THEN selectedGu \ {guName}
               ELSE selectedGu \cup {guName})
    /\ UNCHANGED <<traj_pc, guList, isAnimating, animationInterval, timers, timer_seq,
                   generatorVars, pageVars>>

\* Lines 786-791.
SelectAll ==
    /\ traj_pc = "ready"
    /\ traj_handler' = "select-all"
    /\ Rebuild({ guList[k] : k \in 1..Len(guList) })
    /\ UNCHANGED <<traj_pc, guList, isAnimating, animationInterval, timers, timer_seq,
                   generatorVars, pageVars>>

\* Lines 793-798.
DeselectAll ==
    /\ traj_pc = "ready"
    /\ traj_handler' = "deselect-all"
    /\ Rebuild({})
    /\ UNCHANGED <<traj_pc, guList, isAnimating, animationInterval, timers, timer_seq,
                   generatorVars, pageVars>>

\* Fault of lines 680-684: a running animation does not stop a second play.
play_refused_unless_empty(animating, selected) == selected = {}

\* Lines 680-684: playAnimation returns when an animation is running or no
\* district is selected.
play_refused(animating, selected) == animating \/ selected = {}

\* Lines 803-807 with 679-699: the play button.  setInterval gives a timer
\* that no earlier call gave.
Play ==
    /\ traj_pc = "ready"
    /\ play_refused(isAnimating, selectedGu) \/ timer_seq < MaxTimers
    /\ traj_handler' = "play"
    /\ IF play_refused(isAnimating, selectedGu)
       THEN UNCHANGED <<isAnimating, animationInterval, timers, timer_seq>>
       ELSE /\ isAnimating' = TRUE
            /\ timer_seq' = timer_seq + 1
            /\ animationInterval' = timer_seq + 1
            /\ timers' = timers \cup {timer_seq + 1}
    /\ UNCHANGED <<traj_pc, guList, selectedGu, currentYearIndex, slider, shown_points,
                   generatorVars, pageVars>>

\* Fault of lines 701-707: the flag is reset, the timer is left running.
stopAnimation_keeps_timer(a) ==
    [isAnimating |-> FALSE, animationInterval |-> a.animationInterval, timers |-> a.timers]

\* Lines 701-707: stopAnimation on the three variables it touches.
stopAnimation(a) ==
    [isAnimating |-> FALSE,
     animationInterval |-> 0,
     timers |-> IF a.animationInterval # 0 THEN a.timers \ {a.animationInterval} ELSE a.timers]

Animation ==
    [isAnimating |-> isAnimating, animationInterval |-> animationInterval, timers |-> timers]

SetAnimation(a) ==
    /\ isAnimating' = a.isAnimating
    /\ animationInterval' = a.animationInterval
    /\ timers' = a.timers

\* Lines 809-813: the pause button.
Pause ==
    /\ traj_pc = "ready"
    /\ traj_handler' = "pause"
    /\ SetAnimation(stopAnimation(Animation))
    /\ UNCHANGED <<traj_pc, guList, selectedGu, currentYearIndex, timer_seq, slider,
                   shown_points, generatorVars, pageVars>>

\* Lines 638-641: updateFrame returns before storing the index when no
\* district is selected.
updateFrame_index(selected, current, yearIdx) ==
    IF selected = {} THEN current ELSE yearIdx

\* The number of points of each district in trajectoryData.
TrajLength == Len(trajectory_data[guList[1]])

Min(a, b) == IF a <= b THEN a ELSE b

\* Lines 643-669: the points each selected trace is restyled to.
updateFrame_points(selected, shown, yearIdx) ==
    IF selected = {} THEN shown ELSE Min(yearIdx + 1, TrajLength)

\* Lines 688-698: the callback of the live timer t.
Tick(t) ==
    /\ t \in timers
    /\ traj_handler' = "tick"
    /\ LET next == currentYearIndex + 1
       IN  IF next >= NumYears
           THEN /\ currentYearIndex' = next
                /\ SetAnimation(stopAnimation(Animation))
                /\ UNCHANGED <<slider, shown_points>>
           ELSE /\ currentYearIndex' = updateFrame_index(selectedGu, next, next)
                /\ shown_points' = updateFrame_points(selectedGu, shown_points, next)
                /\ slider' = [slider EXCEPT !.active = next]
                /\ UNCHANGED <<isAnimating, animationInterval, timers>>
    /\ UNCHANGED <<traj_pc, guList, selectedGu, timer_seq, generatorVars, pageVars>>

\* Lines 817-821: the user moves the slider to another step; Plotly stores
\* the step in sliders[0].active and emits plotly_sliderchange.  (The
\* script's own relayout of sliders[0].active, lines 719-731, emits none.)
SliderChange(active) ==
    /\ traj_pc = "ready"
    /\ active \in 0..(slider.steps - 1)
    /\ active # slider.active
    /\ traj_handler' = "sliderchange"
    /\ slider' = [slider EXCEPT !.active = active]
    /\ SetAnimation(stopAnimation(Animation))
    /\ currentYearIndex' = updateFrame_index(selectedGu, currentYearIndex, active)
    /\ shown_points' = updateFrame_points(selectedGu, shown_points, active)
    /\ UNCHANGED <<traj_pc, guList, selectedGu, timer_seq, generatorVars, pageVars>>

NextTrajectoryPage ==
    \/ TrajLoad
    \/ \E guName \in { guList[k] : k \in 1..Len(guList) } : ToggleGu(guName)
    \/ SelectAll
    \/ DeselectAll
    \/ Play
    \/ Pause
    \/ \E t \in timers : Tick(t)
    \/ \E active \in 0..(NumYears - 1) : SliderChange(active)

SpecTrajectoryPage == InitTrajectoryPage /\ [][NextTrajectoryPage]_vars

(***************************************************************************)
(* Properties of compute_lorenz.  They are stated on the argument          *)
(* counts_df and the returned value result, with their own reading of the  *)
(* argument (its length, its total, its running sums).                     *)
(***************************************************************************)
Returned == pc = "return"

N == Len(counts_df)

RECURSIVE SumUpto(_, _)
SumUpto(rows, k) == IF k = 0 THEN 0 ELSE SumUpto(rows, k - 1) + rows[k].count

InputTotal == SumUpto(counts_df, N)

\* The permutations of 1..n, for n up to the number of district names.
PermsOf ==
    [n \in 0..Len(GuNames) |->
        { p \in [1..n -> 1..n] : \A a, b \in 1..n : p[a] = p[b] => a = b }]

Perms(n) == PermsOf[n]

NonDecreasing(s) == \A k \in 1..(Len(s) - 1) : FLe(s[k], s[k + 1])

\* C1: with n >= 1 districts and a positive total, x and y have n+1 points,
\* are non-decreasing, start at 0 and end at 1.
C1_CurveShape ==
    (Returned /\ N >= 1 /\ InputTotal > 0) =>
        /\ result.kind = "tuple"
        /\ Len(result.x) = N + 1 /\ Len(result.y) = N + 1
        /\ NonDecreasing(result.x) /\ NonDecreasing(result.y)
        /\ result.x[1] = Zero /\ result.y[1] = Zero
        /\ result.x[N + 1] = One /\ result.y[N + 1] = One

C1_Witness ==
    /\ Returned /\ N = MaxGu /\ result.kind = "tuple"
    /\ \E a, b \in 1..N : counts_df[a].count > counts_df[b].count /\ counts_df[b].count > 0
    /\ \E k \in 2..N : result.y[k] # result.x[k]

\* C2: a total of 0 (all counts 0, or no district at all) returns None:
\* no curve, hence no NaN in one, and no exception.
C2_NoData ==
    (Returned /\ InputTotal = 0) => result = None

C2_Witness ==
    /\ Returned /\ N >= 2 /\ InputTotal = 0 /\ result = None

C2_WitnessEmpty ==
    /\ Returned /\ N = 0 /\ result = None

Uniform == \A a, b \in 1..N : counts_df[a].count = counts_df[b].count

\* C3 as stated: any uniform table of n >= 1 districts gives gini = 0 and
\* y = x at each of the n+1 points.
C3_UniformAsStated ==
    (Returned /\ N >= 1 /\ Uniform) =>
        /\ result.kind = "tuple"
        /\ result.gini = Zero
        /\ Len(result.x) = N + 1
        /\ \A k \in 1..(N + 1) : result.y[k] = result.x[k]

\* C3 amended: a uniform table of n >= 1 districts with a positive count
\* gives gini = 0 and y = x at each of the n+1 points.
C3_UniformPositive ==
    (Returned /\ N >= 1 /\ Uniform /\ InputTotal > 0) =>
        /\ result.kind = "tuple"
        /\ result.gini = Zero
        /\ Len(result.x) = N + 1 /\ Len(result.y) = N + 1
        /\ \A k \in 1..(N + 1) : result.y[k] = result.x[k]

C3_Witness ==
    /\ Returned /\ N = 4 /\ \A k \in 1..N : counts_df[k].count = 1
    /\ result.kind = "tuple" /\ result.gini = Zero
    /\ result.x = <<Zero, Frac(1, 4), Frac(1, 2), Frac(3, 4), One>>
    /\ result.y = result.x

\* Exactly one district has a non-zero count.
SingleHolder(h) ==
    /\ h \in 1..N
    /\ counts_df[h].count > 0
    /\ \A k \in 1..N : k # h => counts_df[k].count = 0

\* C4: when one district holds the whole total, it is placed last, y is 0
\* at every point before the last, 1 at the last, and gini = 1 - 1/n.
C4_SingleHolder ==
    \A h \in 1..N :
        (Returned /\ SingleHolder(h)) =>
            /\ result.kind = "tuple"
            /\ result.positions[N].gu = counts_df[h].gu
            /\ Len(result.y) = N + 1
            /\ \A k \in 1..N : result.y[k] = Zero
            /\ result.y[N + 1] = One
            /\ result.gini = Frac(N - 1, N)

C4_Witness ==
    /\ Returned /\ N >= 3 /\ SingleHolder(1)
    /\ result.kind = "tuple"
    /\ result.positions[N].gu = GuNames[1]
    /\ result.gini = Frac(N - 1, N)

\* The table with the district names reassigned among the rows by p.
Relabel(rows, p) ==
    [k \in 1..Len(rows) |-> [gu |-> rows[p[k]].gu, count |-> rows[k].count]]

SameCurve(r1, r2) ==
    /\ r1.kind = r2.kind
    /\ r1.kind = "tuple" => (r1.x = r2.x /\ r1.y = r2.y /\ r1.gini = r2.gini)

\* C5: reassigning the district names among the rows changes neither x, y
\* nor gini.
C5_RelabelInvariant ==
    Returned =>
        \A p \in Perms(N) : SameCurve(compute_lorenz(Relabel(counts_df, p)), result)

\* A relabelling under which the districts end up at other positions while
\* the curve stays.
C5_Witness ==
    /\ Returned /\ result.kind = "tuple" /\ N >= 3
    /\ \E p \in Perms(N) :
          LET r2 == compute_lorenz(Relabel(counts_df, p))
          IN  /\ SameCurve(r2, result)
              /\ \E a, b \in 1..N : counts_df[a].count # counts_df[b].count
              /\ \E k \in 1..N : r2.positions[k].gu # result.positions[k].gu

Reorder(rows, q) == [k \in 1..Len(rows) |-> rows[q[k]]]

\* C7: the districts are ordered by count ascending, ties by name
\* ascending, and the whole result is the same for every order of the rows.
C7_RowOrderIndependent ==
    Returned =>
        /\ \A q \in Perms(N) : compute_lorenz(Reorder(counts_df, q)) = result
        /\ result.kind = "tuple" =>
              /\ Len(result.positions) = N
              /\ \A k \in 1..(N - 1) :
                    RowBefore(result.positions[k], result.positions[k + 1])

\* A table with a tie that the sort has to move, and an order of its rows
\* that differs from it.
C7_Witness ==
    /\ Returned /\ result.kind = "tuple" /\ N >= 3
    /\ \E a, b \in 1..N : a < b /\ counts_df[a].count > counts_df[b].count
    /\ \E a, b \in 1..N : a # b /\ counts_df[a].count = counts_df[b].count
    /\ \E q \in Perms(N) :
          /\ Reorder(counts_df, q) # counts_df
          /\ compute_lorenz(Reorder(counts_df, q)) = result

\* The rows that result.positions lists, as a table.
PositionRows == [k \in 1..Len(result.positions) |->
                    [gu |-> result.positions[k].gu, count |-> result.positions[k].count]]

\* S_k: the running sum of the counts through rank k of the sorted order.
S(k) == SumUpto(PositionRows, k)

RECURSIVE TrapezoidTerms(_)
TrapezoidTerms(k) == IF k = 0 THEN 0 ELSE TrapezoidTerms(k - 1) + S(k - 1) + S(k)

\* C8: with a positive total, x[i] = i/n and y[i] = S_i/total for i = 0..n
\* over the sorted districts, and
\* gini * n * total = n * total - sum over i = 1..n of (S_(i-1) + S_i).
C8_Reference ==
    (Returned /\ InputTotal > 0) =>
        /\ result.kind = "tuple"
        /\ Len(result.positions) = N
        /\ { PositionRows[k] : k \in 1..N } = { counts_df[k] : k \in 1..N }
        /\ \A k \in 1..(N - 1) : RowBefore(PositionRows[k], PositionRows[k + 1])
        /\ Len(result.x) = N + 1 /\ Len(result.y) = N + 1
        /\ \A k \in 0..N :
              /\ IsFinite(result.x[k + 1]) /\ IsFinite(result.y[k + 1])
              /\ result.x[k + 1].num * N = k * result.x[k + 1].den
              /\ result.y[k + 1].num * InputTotal = S(k) * result.y[k + 1].den
        /\ IsFinite(result.gini)
        /\ result.gini.num * N * InputTotal
              = result.gini.den * (N * InputTotal - TrapezoidTerms(N))

C8_Witness ==
    /\ Returned /\ result.kind = "tuple" /\ N = 3
    /\ counts_df[1].count = 3 /\ counts_df[2].count = 1 /\ counts_df[3].count = 2
    /\ result.y = <<Zero, Frac(1, 6), Frac(1, 2), One>>
    /\ result.gini = Frac(2, 9)

(***************************************************************************)
(* Properties of the script's two loops.                                   *)
(***************************************************************************)
NoDataYear(y) == compute_lorenz(df[y]) = None

\* The years among the first k of `years` for which there is a curve.
CurveYears(k) == SelectSeq(SubSeq(years, 1, k), LAMBDA y : ~NoDataYear(y))

YearsOfCurves == [k \in 1..Len(lorenz_data) |-> lorenz_data[k].year]

YearsOfTraces == [k \in 1..(Len(fig_data) - 1) |-> fig_data[k + 1].name]

YearsOfPoints(g) == [k \in 1..Len(trajectory_data[g]) |-> trajectory_data[g][k][1]]

\* How many years each loop has gone through.
LorenzLoopDone ==
    IF pc = "lorenz_loop" THEN i - 1
    ELSE IF pc \in {"traj_loop", "done"} THEN Len(years) ELSE 0

TrajLoopDone ==
    IF pc = "traj_loop" THEN i - 1
    ELSE IF pc = "done" THEN Len(years) ELSE 0

\* C9: a year for which compute_lorenz returns None gets no trace, no
\* lorenz_data entry and no trajectory point; the loops do not raise on it
\* and go on: the years with a curve, before and after it, all have their
\* trace, their entry and their points.
C9_NoDataYearSkipped ==
    /\ pc # "TypeError"
    /\ pc \in {"lorenz_loop", "traj_loop", "done"} =>
          LET drawn == CurveYears(LorenzLoopDone)
              placed == CurveYears(TrajLoopDone)
          IN  /\ YearsOfCurves = drawn
              /\ YearsOfTraces = drawn
              /\ Len(top_lorenz_indices) = Len(lorenz_data)
              /\ \A g \in DOMAIN trajectory_data : YearsOfPoints(g) = placed
              /\ placed # <<>> =>
                    DOMAIN trajectory_data = { df[years[1]][k].gu : k \in 1..Len(df[years[1]]) }

\* The script has finished on a CSV whose middle year has no data, the
\* years before and after it have.
C9_Witness ==
    /\ pc = "done" /\ Len(years) = 3
    /\ NoDataYear(years[2]) /\ ~NoDataYear(years[1]) /\ ~NoDataYear(years[3])
    /\ YearsOfCurves = <<years[1], years[3]>>
    /\ Len(fig_data) = 3
    /\ \A g \in DOMAIN trajectory_data : Len(trajectory_data[g]) = 2

(***************************************************************************)
(* Properties of the Lorenz page.                                          *)
(***************************************************************************)
LegendHandlers == {"legendclick", "legenddoubleclick"}

\* C10: while animationComplete is false, no step changes selectedIndices,
\* and a legend click or double click changes no trace style either.
C10_LegendLockedUntilComplete ==
    [][ ~animationComplete =>
            /\ selectedIndices' = selectedIndices
            /\ handler' \in LegendHandlers => trace_style' = trace_style ]_vars

\* A legend handler has just run in the middle of the animation, with the
\* first trace already greyed by the frames and every year still selected.
C10_Witness ==
    /\ handler \in LegendHandlers
    /\ ~animationComplete
    /\ page_pc = "animating" /\ frame = 2
    /\ trace_style[1].color = Gray
    /\ selectedIndices = AllIndices

\* After the animation the same click does change the selection and the
\* styles.
C10_WitnessAfter ==
    /\ handler = "legendclick"
    /\ animationComplete
    /\ selectedIndices # AllIndices
    /\ \E p \in 1..Len(trace_style) : trace_style[p].color = Gray

\* playAnimation has been called (line 999).
PlayAnimationCalled == page_pc # "loading"

\* C11: once playAnimation has been called, animationComplete becomes true
\* on every path, and once true it stays true.
C11_EventuallyCompleteForGood ==
    /\ PlayAnimationCalled ~> animationComplete
    /\ [][animationComplete => animationComplete']_vars

\* The three ways the flag gets set, each with legend clicks now acting.
C11_Witness ==
    /\ animationComplete /\ page_pc = "idle" /\ handler = "restore.then"
    /\ frame = Len(top_lorenz_indices) /\ frame >= 2

C11_WitnessRestoreRejected ==
    animationComplete /\ handler = "restore.catch"

C11_WitnessAnimationRejected ==
    animationComplete /\ handler = "animate.catch" /\ frame < Len(top_lorenz_indices)

C11_WitnessInteraction ==
    animationComplete /\ handler = "legendclick" /\ selectedIndices # AllIndices

(***************************************************************************)
(* Properties of the trajectory page.                                      *)
(***************************************************************************)
\* The plotly_sliderchange handler has just run; slider.active is the
\* event.slider.active it was given.
AfterSliderChange == traj_handler = "sliderchange"

AnimationStopped == ~isAnimating /\ animationInterval = 0 /\ timers = {}

\* C12 as stated: after the plotly_sliderchange handler isAnimating is
\* false, no timer is live and currentYearIndex is event.slider.active.
C12_SliderChangeAsStated ==
    AfterSliderChange => (AnimationStopped /\ currentYearIndex = slider.active)

\* C12 amended: after the plotly_sliderchange handler isAnimating is false
\* and no timer is live; currentYearIndex is event.slider.active when a
\* district is selected and is left as it was when none is.
C12_SliderChangeStopsAndShows ==
    [][ traj_handler' = "sliderchange" =>
            /\ AnimationStopped'
            /\ selectedGu # {} => currentYearIndex' = slider'.active
            /\ selectedGu = {} => currentYearIndex' = currentYearIndex ]_vars

\* The slider has been moved while districts are shown, after an animation
\* was started.
C12_Witness ==
    /\ AfterSliderChange /\ selectedGu # {} /\ timer_seq >= 1
    /\ AnimationStopped
    /\ slider.active >= 1 /\ currentYearIndex = slider.active
    /\ shown_points = Min(slider.active + 1, TrajLength)

\* The slider has been moved with no district selected.
C12_WitnessNoneSelected ==
    /\ AfterSliderChange /\ selectedGu = {} /\ AnimationStopped
    /\ slider.active >= 1 /\ currentYearIndex = 0

\* C13: at most one timer is live and isAnimating is true exactly when
\* animationInterval is non-null (the live timer is then that one); a play
\* pressed while an animation runs or while no district is selected starts
\* no timer.
C13_OneTimer ==
    /\ [](/\ Cardinality(timers) <= 1
          /\ isAnimating <=> animationInterval # 0
          /\ timers = IF animationInterval # 0 THEN {animationInterval} ELSE {})
    /\ [][ (traj_handler' = "play" /\ (isAnimating \/ selectedGu = {})) =>
              UNCHANGED <<timers, animationInterval, timer_seq, isAnimating>> ]_vars

\* Play has been pressed during the second animation of the page, after
\* the timer has ticked.
C13_Witness ==
    /\ traj_handler = "play" /\ isAnimating /\ timer_seq = 2
    /\ timers = {2} /\ animationInterval = 2
    /\ currentYearIndex >= 1

\* An animation that ran to its end: the timer stopped itself.
C13_WitnessRanOut ==
    /\ traj_handler = "tick" /\ ~isAnimating /\ timers = {}
    /\ currentYearIndex = NumYears /\ timer_seq >= 1

====
